---- MODULE Spec2Model ----
(***************************************************************************)
(* A model of the Tensor class of mini-web-gpt (src/lib/tensor.js):        *)
(* construction from nested arrays, scalars, raw Float32Array buffers and  *)
(* shapes; the factories; unflatten / toString; clone; zeroGrad; and the   *)
(* autograd fields the constructor declares.                               *)
(*                                                                         *)
(* JavaScript values are tagged records, Float32Array buffers live in a    *)
(* heap of buffers addressed by index, Tensor objects in a heap of         *)
(* tensors addressed by index.                                             *)
(***************************************************************************)
EXTENDS Integers, Sequences, FiniteSets, TLC

VARIABLES
    x,        \* the nested literal the caller holds (argument of new Tensor)
    buffers,  \* heap of Float32Array objects: sequence of sequences of numbers
    tensors,  \* heap of Tensor objects: sequence of records
    ret       \* the last call: its name, arguments, outcome and return value

vars == <<x, buffers, tensors, ret>>

(***************************************************************************)
(* JavaScript values                                                       *)
(***************************************************************************)
Num(n) == [kind |-> "num", val |-> n, items |-> <<>>]
Arr(s) == [kind |-> "arr", val |-> 0, items |-> s]
F32(b) == [kind |-> "f32", val |-> b, items |-> <<>>]
Undefined == [kind |-> "undef", val |-> 0, items |-> <<>>]

IsArray(v) == v.kind = "arr"

Abs(n) == IF n < 0 THEN -n ELSE n

Max(a, b) == IF a >= b THEN a ELSE b

Min(a, b) == IF a <= b THEN a ELSE b

RECURSIVE Product(_)
Product(s) == IF Len(s) = 0 THEN 1 ELSE Head(s) * Product(Tail(s))

\* Math.ceil(a / b) on integers a, b with b # 0 (JS division is real division)
CeilDiv(a, b) ==
    LET n == IF b < 0 THEN -a ELSE a
        d == Abs(b)
    IN  IF n >= 0 THEN (n + d - 1) \div d ELSE -((-n) \div d)

(***************************************************************************)
(* Float32Array element store: a number is rounded to the nearest float32  *)
(* (24-bit significand, ties to even).  Integers of magnitude up to 2^24   *)
(* are stored exactly; larger ones are rounded to a multiple of their ulp. *)
(***************************************************************************)
F32Significand == 2^24

RECURSIVE Ulp(_, _)
Ulp(a, q) == IF a < F32Significand * q THEN q ELSE Ulp(a, 2 * q)

Fround(n) ==
    LET a  == Abs(n)
        q  == Ulp(a, 1)
        k  == a \div q
        r  == a % q
        up == (2 * r > q) \/ (2 * r = q /\ k % 2 = 1)
        m  == (IF up THEN k + 1 ELSE k) * q
    IN  IF n < 0 THEN -m ELSE m

\* new Float32Array(list of JS numbers)
ToFloat32(flat) == [i \in 1..Len(flat) |-> Fround(flat[i].val)]

(***************************************************************************)
(* Tensor.isValidTensor (lines 47-78)                                      *)
(***************************************************************************)
RECURSIVE checkShape(_, _, _)
RECURSIVE checkShapeLoop(_, _, _, _)

\* the for loop of checkShape over arr[i], threading the captured `shape`
checkShapeLoop(arr, i, depth, shape) ==
    IF i > Len(arr.items) THEN [ok |-> TRUE, shape |-> shape]
    ELSE LET r == checkShape(arr.items[i], depth + 1, shape)
         IN  IF ~r.ok THEN r ELSE checkShapeLoop(arr, i + 1, depth, r.shape)

checkShape(arr, depth, shape) ==
    IF ~IsArray(arr) THEN [ok |-> TRUE, shape |-> shape]
    ELSE IF Len(shape) <= depth
         THEN checkShapeLoop(arr, 1, depth, Append(shape, Len(arr.items)))
         ELSE IF shape[depth + 1] # Len(arr.items)
              THEN [ok |-> FALSE, shape |-> shape]
              ELSE checkShapeLoop(arr, 1, depth, shape)

isValidTensorMutantAcceptAll(data) == TRUE

isValidTensor(data) ==
    IF data.kind = "num" \/ data.kind = "f32" THEN TRUE
    ELSE IF ~IsArray(data) THEN FALSE
    ELSE checkShape(data, 0, <<>>).ok

(***************************************************************************)
(* Tensor.flattenAndGetShape (lines 85-110): the stack-based walk          *)
(***************************************************************************)
\* the children of `array` pushed for i = length-1 down to 0
PushChildrenMutantForward(array, depth) ==
    [j \in 1..Len(array.items) |-> [array |-> array.items[j], depth |-> depth + 1]]

PushChildren(array, depth) ==
    LET n == Len(array.items)
    IN  [j \in 1..n |-> [array |-> array.items[n + 1 - j], depth |-> depth + 1]]

RECURSIVE flattenLoop(_, _, _)
flattenLoop(stack, flat, shape) ==
    IF Len(stack) = 0 THEN [threw |-> FALSE, flat |-> flat, shape |-> shape]
    ELSE LET top   == stack[Len(stack)]
             rest  == SubSeq(stack, 1, Len(stack) - 1)
             array == top.array
             depth == top.depth
         IN  IF ~IsArray(array) THEN flattenLoop(rest, Append(flat, array), shape)
             ELSE IF Len(shape) <= depth
                  THEN flattenLoop(rest \o PushChildren(array, depth), flat,
                                   Append(shape, Len(array.items)))
                  ELSE IF shape[depth + 1] # Len(array.items)
                       THEN [threw |-> TRUE, flat |-> flat, shape |-> shape]
                       ELSE flattenLoop(rest \o PushChildren(array, depth), flat, shape)

flattenAndGetShape(arr) == flattenLoop(<<[array |-> arr, depth |-> 0]>>, <<>>, <<>>)

(***************************************************************************)
(* Tensor.unflatten (lines 233-245).  offset is the JS number offN / offD: *)
(* data.length / size need not be an integer.                              *)
(***************************************************************************)
\* ToIntegerOrInfinity of the non-negative number n / d
Trunc(n, d) == n \div d

\* Array.from(data.subarray(begin, end)), begin = bN/bD, end = begin + count
subarray(data, bN, bD, count) ==
    LET b == Min(Trunc(bN, bD), Len(data))
        e == Min(Trunc(bN + count * bD, bD), Len(data))
        n == Max(e - b, 0)
    IN  Arr([i \in 1..n |-> Num(data[b + i])])

RECURSIVE unflatten(_, _, _, _)
unflatten(data, shape, offN, offD) ==
    IF Len(shape) = 1 THEN subarray(data, offN, offD, shape[1])
    ELSE IF Len(shape) = 0 THEN Arr(<<Undefined>>)   \* new Array(undefined)
    ELSE LET size == shape[1]
             \* subSize = data.length / size; offset + i * subSize
         IN  Arr([j \in 1..size |->
                    unflatten(data, Tail(shape),
                              offN * size + (j - 1) * Len(data) * offD,
                              offD * size)])

(***************************************************************************)
(* Tensor.formatTensorString / Tensor.toString (lines 253-282)             *)
(***************************************************************************)
RECURSIVE Repeat(_, _)
Repeat(s, n) == IF n <= 0 THEN "" ELSE s \o Repeat(s, n - 1)

RECURSIVE Join(_, _)
Join(strs, sep) ==
    IF Len(strs) = 0 THEN ""
    ELSE IF Len(strs) = 1 THEN strs[1]
    ELSE strs[1] \o sep \o Join(Tail(strs), sep)

\* the string Array.prototype.join gives an element
ElementString(v) ==
    IF v.kind = "num" THEN ToString(v.val) ELSE ""

RECURSIVE formatTensorString(_, _)
formatTensorString(nested, indent) ==
    LET indentStr == Repeat(" ", indent)
    IN  IF ~IsArray(nested) THEN ToString(nested.val)
        ELSE IF \A i \in 1..Len(nested.items) : ~IsArray(nested.items[i])
        THEN "[" \o Join([i \in 1..Len(nested.items) |-> ElementString(nested.items[i])],
                         ", ") \o "]"
        ELSE LET innerIndent    == indent + 2
                 innerIndentStr == Repeat(" ", innerIndent)
                 lines == [i \in 1..Len(nested.items) |->
                              innerIndentStr \o
                              formatTensorString(nested.items[i], innerIndent)]
             IN  "[\n" \o Join(lines, ",\n") \o "\n" \o indentStr \o "]"

toString(data, shape) ==
    LET formatted ==
            IF Len(shape) = 1
            THEN formatTensorString(Arr([i \in 1..Len(data) |-> Num(data[i])]), 0)
            ELSE formatTensorString(unflatten(data, shape, 0, 1), 0)
    IN  "tensor(" \o formatted \o ", dtype=float32)"

(***************************************************************************)
(* Bounds of the model and the inputs the callers draw                     *)
(***************************************************************************)
MaxTensors == 2     \* Tensor objects a run allocates
MaxBuffers == 3     \* Float32Array objects of the run that shares buffers
MaxNodes == 4       \* Tensor objects of the run that builds a graph
MaxGrad == 2        \* contributions accumulated into one grad
MaxRank == 3        \* rank of the generated literals
MaxDim == 2         \* length of a dimension of the generated literals and shapes
MaxShapeRank == 2   \* rank of the shapes handed to the factories
MaxLen == 3         \* length of an arange result

\* the literal of the demo entry point (unnamed/part_001 line 5)
NumList(s) == Arr([i \in 1..Len(s) |-> Num(s[i])])

DemoLiteral == Arr(<<NumList(<<1, 2, 3>>), NumList(<<4, 5, 6>>)>>)

\* a number no float32 holds exactly: 2^24 + 1
BigOdd == F32Significand + 1

\* the nested literal of a shape, its leaves numbered start, start + 1, ...
\* in left-to-right depth-first order
RECURSIVE Build(_, _)
Build(shape, start) ==
    IF Len(shape) = 0 THEN Num(start)
    ELSE Arr([i \in 1..shape[1] |->
                 Build(Tail(shape), start + (i - 1) * Product(Tail(shape)))])

ShapesUpTo(rank) == UNION {[1..k -> 0..MaxDim] : k \in 0..rank}

Literals == {Build(s, 1) : s \in ShapesUpTo(MaxRank) \ {<<>>}}

\* a literal with one site changed: an array one element shorter or longer,
\* an array replaced by a number, a number replaced by an array
RECURSIVE Defects(_)
Defects(v) ==
    IF ~IsArray(v) THEN {Arr(<<v>>)}
    ELSE LET n == Len(v.items)
         IN  {Arr(Append(v.items, Num(0))), Num(0)}
             \cup (IF n = 0 THEN {} ELSE {Arr(SubSeq(v.items, 1, n - 1))})
             \cup UNION {{Arr([v.items EXCEPT ![i] = d]) : d \in Defects(v.items[i])}
                         : i \in 1..n}

LiteralInputs == Literals \cup UNION {Defects(v) : v \in Literals} \cup {DemoLiteral}

\* a shape as the JS value a caller passes: an array of numbers
ShapeValue(shape) == NumList(shape)

ShapeInputs == {ShapeValue(s) : s \in ShapesUpTo(MaxShapeRank)}
                 \cup {Num(n) : n \in 0..MaxDim}

FillValues == {-1, 2, BigOdd}

(***************************************************************************)
(* Tensor objects and the constructor (lines 7-36)                         *)
(***************************************************************************)
ErrInvalidTensor == "Invalid tensor data: inconsistent shape or unsupported data type."
ErrInvalidType == "Invalid data type for Tensor"
ErrInconsistent == "Inconsistent shape in nested array."
ErrZeroStep == "Step size cannot be zero."
ErrRange == "RangeError"
ErrNotAFunction == "TypeError: not a function"

Null == 0

\* the fields the constructor assigns
TensorObject(b, shape) ==
    [data |-> b, shape |-> shape,
     requiresGrad |-> FALSE, grad |-> Null, parents |-> <<>>, backward |-> "null"]

Thrown(bufs, tens, error) ==
    [threw |-> TRUE, error |-> error, buffers |-> bufs, tensors |-> tens, self |-> Null]

\* a new Tensor over buffer b, the heap extended with what was allocated
Constructed(bufs, tens, b, shape) ==
    [threw |-> FALSE, error |-> "", buffers |-> bufs,
     tensors |-> Append(tens, TensorObject(b, shape)), self |-> Len(tens) + 1]

Zeroed(n) == [i \in 1..n |-> 0]

\* new Tensor(data, isShape) on the heap (bufs, tens)
Constructor(bufs, tens, data, isShape) ==
    IF ~isValidTensor(data) THEN Thrown(bufs, tens, ErrInvalidTensor)
    ELSE IF isShape
    THEN LET shape == IF IsArray(data)
                      THEN [i \in 1..Len(data.items) |-> data.items[i].val]
                      ELSE <<data.val>>
             size  == Product(shape)
         IN  IF size < 0 THEN Thrown(bufs, tens, ErrRange)
             ELSE Constructed(Append(bufs, Zeroed(size)), tens, Len(bufs) + 1, shape)
    ELSE IF IsArray(data)
    THEN LET r == flattenAndGetShape(data)
         IN  IF r.threw THEN Thrown(bufs, tens, ErrInconsistent)
             ELSE Constructed(Append(bufs, ToFloat32(r.flat)), tens,
                              Len(bufs) + 1, r.shape)
    ELSE IF data.kind = "f32"
    THEN Constructed(bufs, tens, data.val, <<Len(bufs[data.val])>>)
    ELSE IF data.kind = "num"
    THEN Constructed(Append(bufs, <<Fround(data.val)>>), tens, Len(bufs) + 1, <<1>>)
    ELSE Thrown(bufs, tens, ErrInvalidType)

\* the heap after a call and what the call returned
Returns(r, op, args) ==
    /\ buffers' = r.buffers
    /\ tensors' = r.tensors
    /\ ret' = [op |-> op, args |-> args, threw |-> r.threw, error |-> r.error,
               self |-> r.self, value |-> Null]

\* a call that allocates no Tensor and returns a value
Yields(op, self, value) ==
    ret' = [op |-> op, args |-> <<>>, threw |-> FALSE, error |-> "",
            self |-> self, value |-> value]

\* the heap still has room for one more Tensor
HasRoom == Len(tensors) < MaxTensors

\* a caller that constructs one Tensor, as the demo page does
MayCall == tensors = << >>

TensorIds == 1..Len(tensors)

DataOf(t) == buffers[tensors[t].data]

(***************************************************************************)
(* Calls                                                                   *)
(***************************************************************************)
\* new Tensor(x)
NewFromLiteral ==
    /\ Returns(Constructor(buffers, tensors, x, FALSE), "new", <<x>>)
    /\ UNCHANGED x

\* t.flattenAndGetShape(x)
CallFlattenAndGetShape(t) ==
    /\ IsArray(x)
    /\ LET r == flattenAndGetShape(x)
       IN  ret' = [op |-> "flattenAndGetShape", args |-> <<x>>, threw |-> r.threw,
                   error |-> IF r.threw THEN ErrInconsistent ELSE "",
                   self |-> t, value |-> [flat |-> r.flat, shape |-> r.shape]]
    /\ UNCHANGED <<x, buffers, tensors>>

\* t.unflatten(t.data, t.shape)
CallUnflatten(t) ==
    /\ Yields("unflatten", t, unflatten(DataOf(t), tensors[t].shape, 0, 1))
    /\ UNCHANGED <<x, buffers, tensors>>

\* t.toString()
CallToString(t) ==
    /\ Yields("toString", t, toString(DataOf(t), tensors[t].shape))
    /\ UNCHANGED <<x, buffers, tensors>>

\* t.size(dim): this.shape[dim], undefined past the end
CallSize(t, dim) ==
    /\ Yields("size", t, IF dim < Len(tensors[t].shape)
                         THEN Num(tensors[t].shape[dim + 1]) ELSE Undefined)
    /\ UNCHANGED <<x, buffers, tensors>>

\* t.clone(): new Tensor(this.shape, true), then newTensor.data.set(this.data)
CloneOf(bufs, tens, t) ==
    LET r   == Constructor(bufs, tens, ShapeValue(tens[t].shape), TRUE)
        src == bufs[tens[t].data]
    IN  IF r.threw THEN r
        ELSE LET b   == r.tensors[r.self].data
                 dst == r.buffers[b]
             IN  IF Len(src) > Len(dst) THEN Thrown(bufs, tens, ErrRange)
                 ELSE [r EXCEPT !.buffers[b] =
                          [i \in 1..Len(dst) |-> IF i <= Len(src) THEN src[i] ELSE dst[i]]]

CallClone(t) ==
    /\ Returns(CloneOf(buffers, tensors, t), "clone", <<t>>)
    /\ UNCHANGED x

\* t.zeroGrad()
ZeroGradOfMutantFillsData(bufs, tens, t) ==
    IF tens[t].grad # Null
    THEN [bufs EXCEPT ![tens[t].data] = Zeroed(Len(bufs[tens[t].data]))]
    ELSE bufs

ZeroGradOf(bufs, tens, t) ==
    IF tens[t].grad # Null
    THEN LET b == tens[tens[t].grad].data
         IN  [bufs EXCEPT ![b] = Zeroed(Len(bufs[b]))]
    ELSE bufs

CallZeroGrad(t) ==
    /\ buffers' = ZeroGradOf(buffers, tensors, t)
    /\ Yields("zeroGrad", t, Undefined)
    /\ UNCHANGED <<x, tensors>>

(***************************************************************************)
(* Factories (lines 117-215)                                               *)
(***************************************************************************)
JsNull == [kind |-> "null", val |-> 0, items |-> <<>>]

\* tensor.data.fill(value) on the tensor a constructor call r returned
FillMutantSkipsFirst(r, value) ==
    LET b == r.tensors[r.self].data
    IN  [r EXCEPT !.buffers[b] =
            [i \in 1..Len(@) |-> IF i = 1 THEN @[i] ELSE Fround(value)]]

Fill(r, value) ==
    LET b == r.tensors[r.self].data
    IN  [r EXCEPT !.buffers[b] = [i \in 1..Len(@) |-> Fround(value)]]

\* Tensor.zeros(shape)
Zeros(shape) ==
    /\ Returns(Constructor(buffers, tensors, shape, TRUE), "zeros", <<shape>>)
    /\ UNCHANGED x

\* Tensor.ones(shape)
Ones(shape) ==
    /\ LET r == Constructor(buffers, tensors, shape, TRUE)
       IN  Returns(IF r.threw THEN r ELSE Fill(r, 1), "ones", <<shape>>)
    /\ UNCHANGED x

\* Tensor.full(shape, value)
Full(shape, value) ==
    /\ LET r == Constructor(buffers, tensors, shape, TRUE)
       IN  Returns(IF r.threw THEN r ELSE Fill(r, value), "full", <<shape, Num(value)>>)
    /\ UNCHANGED x

\* the size arange computes: Math.max(0, Math.ceil((end - start) / step))
ArangeSizeMutantFloor(start, end, step) == Max(0, (end - start) \div step)

ArangeSize(start, end, step) == Max(0, CeilDiv(end - start, step))

\* Tensor.arange(start, end, step); end is JsNull in the one-argument call
ArangeOf(bufs, tens, start0, end0, step) ==
    LET end   == IF end0.kind = "null" THEN start0 ELSE end0.val
        start == IF end0.kind = "null" THEN 0 ELSE start0
    IN  IF step = 0 THEN Thrown(bufs, tens, ErrZeroStep)
        ELSE LET size == ArangeSize(start, end, step)
                 \* for (i = 0, val = start; i < size; i++, val += step) data[i] = val
                 data == [i \in 1..size |-> Fround(start + (i - 1) * step)]
             IN  Constructor(Append(bufs, data), tens, F32(Len(bufs) + 1), FALSE)

ArangeFits(start0, end0, step) ==
    LET end   == IF end0.kind = "null" THEN start0 ELSE end0.val
        start == IF end0.kind = "null" THEN 0 ELSE start0
    IN  step # 0 => ArangeSize(start, end, step) <= MaxLen

Arange(start, end, step) ==
    /\ ArangeFits(start, end, step)
    /\ Returns(ArangeOf(buffers, tensors, start, end, step), "arange",
               <<Num(start), end, Num(step)>>)
    /\ UNCHANGED x

\* Math.random(): the k-th draw of a call, a number of the stream the call sees
RandomDraw(seed, k) == (seed + k) % 2

RandomSeeds == {0, 1}

\* Tensor.rand(shape)
Rand(shape, seed) ==
    /\ LET r == Constructor(buffers, tensors, shape, TRUE)
       IN  Returns(IF r.threw THEN r
                   ELSE [r EXCEPT !.buffers[r.tensors[r.self].data] =
                            [i \in 1..Len(@) |-> Fround(RandomDraw(seed, i))]],
                   "rand", <<shape>>)
    /\ UNCHANGED x

\* the Box-Muller pair of the draws u, v, as numbers of the model: z0 and z1
BoxMuller(u, v) == <<u - v, u + v - 1>>

\* the loop of randn from index i (0-based) on, two slots per pair of draws
RECURSIVE RandnLoop(_, _, _, _, _)
RandnLoop(data, i, seed, mean, std) ==
    IF i >= Len(data) THEN data
    ELSE LET z  == BoxMuller(RandomDraw(seed, i), RandomDraw(seed, i + 1))
             d0 == [data EXCEPT ![i + 1] = Fround(z[1] * std + mean)]
             d1 == IF i + 1 < Len(data)
                   THEN [d0 EXCEPT ![i + 2] = Fround(z[2] * std + mean)]
                   ELSE d0
         IN  RandnLoop(d1, i + 2, seed, mean, std)

\* Tensor.randn(shape) with the default mean = 0, std = 1
Randn(shape, seed) ==
    /\ LET r == Constructor(buffers, tensors, shape, TRUE)
       IN  Returns(IF r.threw THEN r
                   ELSE [r EXCEPT !.buffers[r.tensors[r.self].data] =
                            RandnLoop(@, 0, seed, 0, 1)],
                   "randn", <<shape>>)
    /\ UNCHANGED x

(***************************************************************************)
(* A caller that builds one tensor from a literal and inspects it          *)
(***************************************************************************)
EmptyHeap ==
    /\ buffers = <<>>
    /\ tensors = <<>>
    /\ ret = [op |-> "none", args |-> <<>>, threw |-> FALSE, error |-> "",
              self |-> Null, value |-> Null]

InitLit == x \in LiteralInputs /\ EmptyHeap

NextLit ==
    \/ MayCall /\ NewFromLiteral
    \/ \E t \in TensorIds : CallFlattenAndGetShape(t)
    \/ \E t \in TensorIds : CallUnflatten(t)
    \/ \E t \in TensorIds : CallToString(t)

SpecLit == InitLit /\ [][NextLit]_vars

(***************************************************************************)
(* What a nested literal is, stated on the literal itself                  *)
(***************************************************************************)
\* the lengths of the arrays k levels below v
RECURSIVE LensAt(_, _)
LensAt(v, k) ==
    IF ~IsArray(v) THEN {}
    ELSE IF k = 0 THEN {Len(v.items)}
    ELSE UNION {LensAt(v.items[i], k - 1) : i \in 1..Len(v.items)}

\* the depths at which v has numbers
RECURSIVE LeafDepths(_)
LeafDepths(v) ==
    IF ~IsArray(v) THEN {0}
    ELSE {d + 1 : d \in UNION {LeafDepths(v.items[i]) : i \in 1..Len(v.items)}}

\* the number of levels of arrays in v
RECURSIVE ArrayDepth(_)
ArrayDepth(v) ==
    IF ~IsArray(v) THEN 0
    ELSE LET below == {ArrayDepth(v.items[i]) : i \in 1..Len(v.items)}
         IN  1 + (IF below = {} THEN 0 ELSE CHOOSE m \in below : \A k \in below : k <= m)

\* two arrays at the same nesting depth have different lengths
Ragged(v) == \E k \in 0..ArrayDepth(v) : Cardinality(LensAt(v, k)) > 1

\* every level holds arrays of one length only, or numbers only
ValidLiteral(v) ==
    /\ IsArray(v)
    /\ ~Ragged(v)
    /\ LeafDepths(v) \subseteq {ArrayDepth(v)}

\* s[d] is the length of the arrays at depth d
LiteralShape(v) == [d \in 1..ArrayDepth(v) |-> CHOOSE n \in LensAt(v, d - 1) : TRUE]

RECURSIVE ElementAt(_, _)
ElementAt(v, idx) ==
    IF Len(idx) = 0 THEN v ELSE ElementAt(v.items[idx[1] + 1], Tail(idx))

\* i0*stride0 + ... + ik, strideD = product(shape[D+1:])
RECURSIVE RowMajorOffset(_, _)
RowMajorOffset(idx, shape) ==
    IF Len(idx) = 0 THEN 0
    ELSE idx[1] * Product(Tail(shape)) + RowMajorOffset(Tail(idx), Tail(shape))

MultiIndices(shape) ==
    {idx \in [1..Len(shape) -> 0..Max(MaxDim, 3)] :
        \A d \in 1..Len(shape) : idx[d] < shape[d]}

\* in this caller the tensor allocated first is new Tensor(x)
FromLiteral == CHOOSE t \in TensorIds : \A u \in TensorIds : t <= u

(***************************************************************************)
(* C1. Round trip: for a valid nested literal x of rank >= 1,              *)
(* t = new Tensor(x) followed by t.unflatten(t.data, t.shape) returns x,   *)
(* for rank 3 and above as for rank 1 and 2.                               *)
(***************************************************************************)
RoundTrip ==
    (ret.op = "unflatten" /\ ret.self = FromLiteral /\ ValidLiteral(x))
        => ret.value = x

(***************************************************************************)
(* C2. Shape/buffer invariant: every tensor the constructor or a factory   *)
(* returns has data.length = product(shape), also after later calls.       *)
(***************************************************************************)
ShapeBufferInvariant ==
    \A t \in TensorIds : Len(DataOf(t)) = Product(tensors[t].shape)

(***************************************************************************)
(* C3. A nested array with two arrays of different lengths at one depth    *)
(* makes new Tensor(x) fail in the validation walk, before any buffer is   *)
(* allocated: no tensor and no buffer ever exists for it.                  *)
(***************************************************************************)
RaggedFailsBeforeAllocation ==
    Ragged(x) =>
        /\ tensors = <<>>
        /\ buffers = <<>>
        /\ ret.op = "new" => (ret.threw /\ ret.error = ErrInvalidTensor /\ ret.self = Null)

RaggedRejected == ret.op = "new" /\ Ragged(x) /\ ret.threw /\ ArrayDepth(x) >= 2

(***************************************************************************)
(* C10. Row-major flattening: for a valid literal x of shape s,            *)
(* flattenAndGetShape returns s and a flat list of length product(s) that  *)
(* holds x[i0]...[ik] at offset i0*stride0 + ... + ik.                     *)
(***************************************************************************)
RowMajorFlattening ==
    (ret.op = "flattenAndGetShape" /\ ValidLiteral(x)) =>
        LET s == LiteralShape(x)
        IN  /\ ~ret.threw
            /\ ret.value.shape = s
            /\ Len(ret.value.flat) = Product(s)
            /\ \A idx \in MultiIndices(s) :
                   ret.value.flat[RowMajorOffset(idx, s) + 1] = ElementAt(x, idx)

FlattenedRankThree ==
    /\ ret.op = "flattenAndGetShape"
    /\ ValidLiteral(x)
    /\ LiteralShape(x) = <<2, 2, 2>>
    /\ Len(ret.value.flat) = 8

(***************************************************************************)
(* C8. toString: 'tensor(' R ', dtype=float32)' with R the flat list of a  *)
(* 1-D tensor and, for rank >= 2, the nested brackets with every           *)
(* sub-tensor on its own line, row-major, two more spaces of indent per    *)
(* level; the demo literal renders as the specified string.                *)
(***************************************************************************)
RECURSIVE Rendering(_, _, _, _)
Rendering(data, shape, offset, indent) ==
    IF Len(shape) = 1
    THEN "[" \o Join([i \in 1..shape[1] |-> ToString(data[offset + i])], ", ") \o "]"
    ELSE "[\n"
         \o Join([i \in 1..shape[1] |->
                     Repeat(" ", indent + 2)
                     \o Rendering(data, Tail(shape),
                                  offset + (i - 1) * Product(Tail(shape)), indent + 2)],
                 ",\n")
         \o "\n" \o Repeat(" ", indent) \o "]"

DemoString == "tensor([\n  [1, 2, 3],\n  [4, 5, 6]\n], dtype=float32)"

ToStringRendering ==
    (/\ ret.op = "toString"
     /\ ret.self = FromLiteral
     /\ ValidLiteral(x)
     /\ \A d \in 1..Len(LiteralShape(x)) : LiteralShape(x)[d] >= 1) =>
        /\ ret.value = "tensor(" \o Rendering(DataOf(ret.self), tensors[ret.self].shape, 0, 0)
                                 \o ", dtype=float32)"
        /\ x = DemoLiteral => ret.value = DemoString

(***************************************************************************)
(* A caller that exercises the factories                                   *)
(***************************************************************************)
ArangeStarts == (-MaxLen..MaxLen) \cup {F32Significand}

ArangeEnds == {Num(n) : n \in (-MaxLen..MaxLen) \cup {F32Significand + MaxLen}}
                \cup {JsNull}

ArangeSteps == -2..3

InitFactory == x = DemoLiteral /\ EmptyHeap

NextFactory ==
    \/ MayCall /\ \E s \in ShapeInputs : Zeros(s)
    \/ MayCall /\ \E s \in ShapeInputs : Ones(s)
    \/ MayCall /\ \E s \in ShapeInputs : \E v \in FillValues : Full(s, v)
    \/ MayCall /\ \E a \in ArangeStarts : \E b \in ArangeEnds : \E c \in ArangeSteps :
                     Arange(a, b, c)
    \/ MayCall /\ \E s \in ShapeInputs : \E seed \in RandomSeeds : Rand(s, seed)
    \/ MayCall /\ \E s \in ShapeInputs : \E seed \in RandomSeeds : Randn(s, seed)

SpecFactory == InitFactory /\ [][NextFactory]_vars

(***************************************************************************)
(* What float32 storage does to a number, stated without Fround            *)
(***************************************************************************)
\* n is a float32: a multiple of the unit of its binade
IsFloat32(n) == Abs(n) % Ulp(Abs(n), 1) = 0

\* e is a float32 and no float32 is nearer to v
NearestFloat32(e, v) ==
    /\ IsFloat32(e)
    /\ \A f \in (v - 2)..(v + 2) : IsFloat32(f) => Abs(e - v) <= Abs(f - v)

\* the shape a factory argument denotes: the array itself, or [n] for a number n
ShapeDenoted(arg) ==
    IF IsArray(arg) THEN [i \in 1..Len(arg.items) |-> arg.items[i].val] ELSE <<arg.val>>

IsFillCall == ret.op \in {"zeros", "ones", "full"}

FillOf == IF ret.op = "zeros" THEN 0 ELSE IF ret.op = "ones" THEN 1 ELSE ret.args[2].val

(***************************************************************************)
(* C6 as stated. zeros(s), ones(s), full(s, v): shape s, data.length =     *)
(* product(s), every element equal to 0, 1 and v; a zero dimension gives a *)
(* length-0 buffer without failing.                                        *)
(***************************************************************************)
FillFactoriesExact ==
    IsFillCall =>
        /\ ~ret.threw
        /\ tensors[ret.self].shape = ShapeDenoted(ret.args[1])
        /\ Len(DataOf(ret.self)) = Product(ShapeDenoted(ret.args[1]))
        /\ \A i \in 1..Len(DataOf(ret.self)) : DataOf(ret.self)[i] = FillOf

(***************************************************************************)
(* C6 amended. As above, with every element of full(s, v) equal to v       *)
(* rounded to the nearest float32 (v itself when v is a float32).          *)
(***************************************************************************)
FillFactories ==
    IsFillCall =>
        /\ ~ret.threw
        /\ tensors[ret.self].shape = ShapeDenoted(ret.args[1])
        /\ Len(DataOf(ret.self)) = Product(ShapeDenoted(ret.args[1]))
        /\ \A i \in 1..Len(DataOf(ret.self)) :
              /\ NearestFloat32(DataOf(ret.self)[i], FillOf)
              /\ IsFloat32(FillOf) => DataOf(ret.self)[i] = FillOf

FilledMatrix ==
    /\ ret.op = "full"
    /\ ~ret.threw
    /\ tensors[ret.self].shape = <<2, 2>>
    /\ DataOf(ret.self) = <<-1, -1, -1, -1>>

(***************************************************************************)
(* The range arange(start, end, step) denotes, stated on its arguments     *)
(***************************************************************************)
IsArangeCall == ret.op = "arange"

ArangeStart == IF ret.args[2].kind = "null" THEN 0 ELSE ret.args[1].val

ArangeEnd == IF ret.args[2].kind = "null" THEN ret.args[1].val ELSE ret.args[2].val

ArangeStep == ret.args[3].val

\* start + i*step lies strictly before end in the direction of step
Before(i) ==
    IF ArangeStep > 0 THEN ArangeStart + i * ArangeStep < ArangeEnd
    ELSE ArangeStart + i * ArangeStep > ArangeEnd

\* max(0, ceil((end - start) / step)): the number of i >= 0 with Before(i),
\* counted up to the MaxLen elements a call of this model may produce
ArangeLength == Cardinality({i \in 0..MaxLen : Before(i)})

(***************************************************************************)
(* C5 as stated. arange(start, end, step), step # 0: a 1-D tensor of       *)
(* length max(0, ceil((end - start) / step)) with i-th element             *)
(* start + i*step, every element strictly before end; arange(n) is         *)
(* arange(0, n, 1); step = 0 fails and returns no tensor.                  *)
(***************************************************************************)
ArangeExact ==
    IsArangeCall =>
        IF ArangeStep = 0
        THEN ret.threw /\ ret.error = ErrZeroStep /\ ret.self = Null
        ELSE /\ ~ret.threw
             /\ tensors[ret.self].shape = <<ArangeLength>>
             /\ Len(DataOf(ret.self)) = ArangeLength
             /\ \A i \in 0..(ArangeLength - 1) :
                   /\ DataOf(ret.self)[i + 1] = ArangeStart + i * ArangeStep
                   /\ IF ArangeStep > 0 THEN DataOf(ret.self)[i + 1] < ArangeEnd
                      ELSE DataOf(ret.self)[i + 1] > ArangeEnd

(***************************************************************************)
(* C5 amended. As above, with the i-th element equal to start + i*step     *)
(* rounded to the nearest float32: equal to start + i*step, and strictly   *)
(* before end, whenever start + i*step is a float32 (as every integer of   *)
(* magnitude up to 2^24 is).                                               *)
(***************************************************************************)
ArangeResult ==
    IsArangeCall =>
        IF ArangeStep = 0
        THEN ret.threw /\ ret.error = ErrZeroStep /\ ret.self = Null
        ELSE /\ ~ret.threw
             /\ tensors[ret.self].shape = <<ArangeLength>>
             /\ Len(DataOf(ret.self)) = ArangeLength
             /\ \A i \in 0..(ArangeLength - 1) :
                   LET want == ArangeStart + i * ArangeStep
                   IN  /\ NearestFloat32(DataOf(ret.self)[i + 1], want)
                       /\ IsFloat32(want) => DataOf(ret.self)[i + 1] = want

ArangeEvens ==
    /\ IsArangeCall
    /\ ~ret.threw
    /\ ArangeStart = -1 /\ ArangeEnd = 3 /\ ArangeStep = 2
    /\ DataOf(ret.self) = <<-1, 1>>

(***************************************************************************)
(* A caller that hands raw buffers to the constructor, clones, and         *)
(* accumulates and resets gradients                                        *)
(***************************************************************************)
\* new Tensor(v) for a number v
NewFromNumber(v) ==
    /\ Returns(Constructor(buffers, tensors, Num(v), FALSE), "new", <<Num(v)>>)
    /\ UNCHANGED x

\* new Tensor(buf) for a Float32Array the caller holds: one it allocated, or
\* the data of a tensor
NewFromBuffer(b) ==
    /\ Returns(Constructor(buffers, tensors, F32(b), FALSE), "new", <<F32(b)>>)
    /\ UNCHANGED x

\* the caller's own new Float32Array(contents)
AllocBuffer(contents) ==
    /\ buffers' = Append(buffers, [i \in 1..Len(contents) |-> Fround(contents[i])])
    /\ ret' = [op |-> "Float32Array", args |-> <<>>, threw |-> FALSE, error |-> "",
               self |-> Null, value |-> F32(Len(buffers) + 1)]
    /\ UNCHANGED <<x, tensors>>

\* t.requiresGrad = true, assigned by the code that builds the graph
SetRequiresGrad(t) ==
    /\ ~tensors[t].requiresGrad
    /\ tensors' = [tensors EXCEPT ![t].requiresGrad = TRUE]
    /\ ret' = [op |-> "requiresGrad", args |-> <<>>, threw |-> FALSE, error |-> "",
               self |-> t, value |-> Undefined]
    /\ UNCHANGED <<x, buffers>>

\* one contribution added into t.grad, which is allocated as zeros of t's
\* shape on the first contribution; the contribution is [1, 2, ..., n]
AccumulateGrad(t) ==
    /\ tensors[t].requiresGrad
    /\ LET r == IF tensors[t].grad = Null
                THEN Constructor(buffers, tensors, ShapeValue(tensors[t].shape), TRUE)
                ELSE [threw |-> FALSE, error |-> "", buffers |-> buffers,
                      tensors |-> tensors, self |-> tensors[t].grad]
           g == r.self
           b == r.tensors[g].data
       IN  /\ ~r.threw
           /\ Len(r.tensors) <= MaxTensors
           /\ \A i \in 1..Len(r.buffers[b]) : r.buffers[b][i] < MaxGrad * i
           /\ buffers' = [r.buffers EXCEPT ![b] = [i \in 1..Len(@) |-> Fround(@[i] + i)]]
           /\ tensors' = [r.tensors EXCEPT ![t].grad = g]
           /\ ret' = [op |-> "accumulate", args |-> <<>>, threw |-> FALSE, error |-> "",
                      self |-> t, value |-> Undefined]
    /\ UNCHANGED x

BufferContents == {<<1, 2>>}

NumberInputs == {3}

Init == x = DemoLiteral /\ EmptyHeap

Next ==
    \/ HasRoom /\ NewFromLiteral
    \/ HasRoom /\ \E v \in NumberInputs : NewFromNumber(v)
    \/ Len(buffers) < MaxBuffers /\ \E c \in BufferContents : AllocBuffer(c)
    \/ HasRoom /\ \E b \in 1..Len(buffers) : NewFromBuffer(b)
    \/ HasRoom /\ Len(buffers) < MaxBuffers /\ \E t \in TensorIds : CallClone(t)
    \/ \E t \in TensorIds : SetRequiresGrad(t)
    \/ \E t \in TensorIds : AccumulateGrad(t)
    \/ \E t \in TensorIds : CallZeroGrad(t)
    \/ \E t \in TensorIds : \E dim \in 0..MaxDim : CallSize(t, dim)

Spec == Init /\ [][Next]_vars

(***************************************************************************)
(* C7. zeroGrad: with grad present, every element of grad.data becomes 0   *)
(* and grad's shape, the grad tensor, its buffer, and the tensor's own     *)
(* data, shape, requiresGrad, parents and backward function stay as they   *)
(* were; with grad absent nothing changes; the call does not fail.         *)
(***************************************************************************)
ZeroGradFrame ==
    [][\A t \in TensorIds :
          (ret'.op = "zeroGrad" /\ ret'.self = t) =>
              /\ ~ret'.threw
              /\ tensors' = tensors
              /\ Len(buffers') = Len(buffers)
              /\ IF tensors[t].grad # Null
                 THEN LET b == tensors[tensors[t].grad].data
                      IN  /\ Len(buffers'[b]) = Len(buffers[b])
                          /\ \A i \in 1..Len(buffers'[b]) : buffers'[b][i] = 0
                          /\ buffers'[tensors[t].data] = buffers[tensors[t].data]
                          /\ Len(buffers'[b]) = Product(tensors'[tensors[t].grad].shape)
                 ELSE buffers' = buffers]_vars

GradReset ==
    /\ ret.op = "zeroGrad"
    /\ tensors[ret.self].grad # Null
    /\ tensors[tensors[ret.self].grad].shape = <<2, 3>>
    /\ buffers[tensors[tensors[ret.self].grad].data] = <<0, 0, 0, 0, 0, 0>>
    /\ DataOf(ret.self) = <<1, 2, 3, 4, 5, 6>>

(***************************************************************************)
(* C9. Buffer exclusivity: no two tensors share a backing buffer, and      *)
(* t.clone() has the data and shape of t.                                  *)
(***************************************************************************)
BufferExclusivity ==
    /\ \A t, u \in TensorIds : t # u => tensors[t].data # tensors[u].data
    /\ (ret.op = "clone" /\ ~ret.threw) =>
          /\ DataOf(ret.self) = DataOf(ret.args[1])
          /\ tensors[ret.self].shape = tensors[ret.args[1]].shape

(***************************************************************************)
(* A caller that builds a graph over the autograd fields and asks for a    *)
(* backward pass                                                           *)
(***************************************************************************)
\* the members of class Tensor a call can resolve
TensorMethods ==
    {"flattenAndGetShape", "size", "unflatten", "formatTensorString", "toString",
     "clone", "zeroGrad"}

\* t.name(): a name the class does not define is undefined, and calling it
\* throws a TypeError before anything runs
Invoke(t, name) ==
    /\ name \notin TensorMethods
    /\ ret' = [op |-> name, args |-> <<>>, threw |-> TRUE, error |-> ErrNotAFunction,
               self |-> t, value |-> Undefined]
    /\ UNCHANGED <<x, buffers, tensors>>

\* r.backward()
CallBackward(r) == Invoke(r, "backward")

\* a differentiable operation of the layer above: it allocates its result,
\* and when a parent requires gradients it marks the result and records the
\* parents and the backward function
ApplyOp(ps) ==
    /\ LET r     == Constructor(buffers, tensors, Num(0), FALSE)
           track == \E i \in 1..Len(ps) : tensors[ps[i]].requiresGrad
       IN  /\ buffers' = r.buffers
           /\ tensors' = IF track
                         THEN [r.tensors EXCEPT ![r.self].requiresGrad = TRUE,
                                                ![r.self].parents = ps,
                                                ![r.self].backward = "fn"]
                         ELSE r.tensors
           /\ ret' = [op |-> "op", args |-> ps, threw |-> FALSE, error |-> "",
                      self |-> r.self, value |-> Null]
    /\ UNCHANGED x

ParentLists ==
    {<<p>> : p \in TensorIds} \cup {<<p, q>> : p, q \in TensorIds}

MayAddNode == Len(tensors) < MaxNodes

InitGraph == x = DemoLiteral /\ EmptyHeap

NextGraph ==
    \/ MayAddNode /\ \E v \in NumberInputs : NewFromNumber(v)
    \/ \E t \in TensorIds : SetRequiresGrad(t)
    \/ MayAddNode /\ \E ps \in ParentLists : ApplyOp(ps)
    \/ \E r \in TensorIds : CallBackward(r)
    \/ \E t \in TensorIds : CallZeroGrad(t)

SpecGraph == InitGraph /\ [][NextGraph]_vars

\* the tensors reachable from t through parents links, t included
RECURSIVE Reachable(_)
Reachable(t) ==
    {t} \cup UNION {Reachable(tensors[t].parents[i]) : i \in 1..Len(tensors[t].parents)}

ParentsOf(t) == {tensors[t].parents[i] : i \in 1..Len(tensors[t].parents)}

(***************************************************************************)
(* C4. Backward-pass accumulation: when c requires gradients and is a      *)
(* parent of two distinct tensors d and e reachable from a root r, one     *)
(* r.backward() runs every backward function once, in reverse topological  *)
(* order, and leaves c.grad holding both contributions.                    *)
(***************************************************************************)
BackwardAccumulates ==
    \A c, d, e \in TensorIds :
        (/\ ret.op = "backward"
         /\ tensors[c].requiresGrad
         /\ d # e
         /\ c \in ParentsOf(d) /\ c \in ParentsOf(e)
         /\ {d, e} \subseteq Reachable(ret.self)) =>
            /\ ~ret.threw
            /\ tensors[c].grad # Null
====
